---- MODULE Spec2Model ----
(***************************************************************************)
(* In-memory queue demo (examples/communication/queues/in_memory_queue.js): *)
(* a bounded FIFO queue, a producer endpoint (/enqueue), a timer-driven     *)
(* consumer loop, the /control surface (pause, resume, set), the /events    *)
(* stream with its subscribers, /health and the SIGINT handler.  Node runs  *)
(* every handler and timer callback to completion, so each of them is one   *)
(* atomic action here.                                                      *)
(*                                                                          *)
(* Time is not modelled: a pending setTimeout is an element of the bag      *)
(* `timers` and may expire at any later step, in any order with respect to  *)
(* the other pending timers (work delays are random, 50..200 ms).  The ts   *)
(* field of a job only feeds the logged latency and is left out.            *)
(***************************************************************************)
EXTENDS Integers, Sequences, FiniteSets, Bags, TLC

\* Bounds of the exploration.
MaxCapacity == 5    \* queue capacities 1..MaxCapacity are explored
MaxCount    == 7    \* largest count carried by one /enqueue request
MaxProduced == 6    \* /enqueue requests stop once produced would exceed this
MaxTimers   == 2    \* resume is not issued with this many timers pending
MaxObservers == 2   \* connections to /events that are ever opened
MaxPollMs   == 2    \* largest consumeMs carried by one /control request
SmallCapacity == 2  \* capacities 1..SmallCapacity in LiveSpec
SmallProduced == 3  \* bound on produced in LiveSpec
TinyCapacity == 1   \* capacities 1..TinyCapacity in CtlSpec and ObsSpec
TinyProduced == 2   \* bound on produced in CtlSpec and ObsSpec
MaxRequests == 2    \* requests to /state of the long-poll server
MaxTicks    == 2    \* no request to /state arrives after this many ticks
MaxPolls    == 12   \* polls the short-poll client issues
MaxWebhooks == 2    \* webhooks one dispatch sends to, in parallel
MaxClients  == 2    \* connections to the SSE service that are ever opened
MaxUuids    == 2    \* webhooks ever created in the repository
MaxRooms    == 1    \* rooms ever created in the room repository

\* let consumePollMs = 50
DefaultPollMs == 50

\* const BASE_INTERVAL_MS = 1000
BASE_INTERVAL_MS == 1000

\* Math.min(..., 10_000)
BackoffCapMs == 10000

\* config.webhook.retryAttempts, config.webhook.retryDelay
retryAttempts == 3
retryDelay == 1000

VARIABLES
    queue,       \* the Queue object: [items, maxSize]
    produced,    \* let produced
    consumed,    \* let consumed
    running,     \* let running
    timers,      \* bag of pending setTimeout callbacks of the consumer
    emitted,     \* the sseSend calls of the most recent handler, in order
    lastOp,      \* the most recent handler and its input
    reply,       \* the JSON body the most recent handler answered with
    pushes,      \* the queue.push calls of the most recent handler, in order
    acceptedIds, \* history: ids of the accepted jobs, in enqueue order
    dequeuedIds, \* history: ids of the jobs taken by queue.shift, in order
    rejections,  \* history: number of queue.push calls that returned false
    paused,      \* history: a pause was handled and no resume since
    processedIds,  \* history: the ids the "processed" events so far carried
    consumePollMs, \* let consumePollMs
    subscribers, \* const subscribers = new Set(): its members, oldest first
    chan,        \* per /events connection: idle, open, broken, ended, closed
    delivered,   \* per /events connection: the events the most recent
                 \* handler wrote to it, in order
    failed,      \* connections a write of the most recent handler failed on
    \* long_poll_server.js
    currentValue,   \* let currentValue
    lpSubscribers,  \* const subscribers = new Set(): the waiting responses
    lpReq,          \* per request to /state: new, pending, answered, aborted
    lpTimeout,      \* requests whose 15 s setTimeout is pending
    lpEnded,        \* per request: the statuses of the writeHead/end calls
                    \* made on its response so far
    \* short_poll_client.js
    currentInterval,    \* let currentInterval
    consecutiveErrors,  \* let consecutiveErrors
    totalRequests,      \* let totalRequests
    spTimers,           \* delays of the pending setTimeout(poll, ...) calls
    spFetching,         \* number of poll() calls awaiting their fetch
    \* WebhookService.dispatch: per webhook, the sendWithRetry call
    deliveries,
    results,     \* const results = await Promise.all(...): per webhook, the promise
    \* SSEService
    clients,     \* private clients: Map<string, SSEClient>
    sseLast,     \* the most recent call on the service and what it wrote
    \* A repository (BaseRepository): the WebhookRepository, or the
    \* RoomRepository in RoomSpec
    data,        \* protected data: T[]
    file,        \* content of the file at filePath
    uuids,       \* number of ids uuidv4() has handed out
    repoLast     \* the most recent call on the repository and its outcome

queueVars == << queue, produced, consumed, running, timers, emitted, lastOp,
           reply, pushes, acceptedIds, dequeuedIds, rejections, paused,
           processedIds, consumePollMs, subscribers, chan, delivered,
           failed >>

lpVars == << currentValue, lpSubscribers, lpReq, lpTimeout, lpEnded >>

spVars == << currentInterval, consecutiveErrors, totalRequests, spTimers,
             spFetching >>

whVars == << deliveries, results >>

sseVars == << clients, sseLast >>

repoVars == << data, file, uuids, repoLast >>

\* The programs other than the in-memory queue demo.
otherPrograms == << lpVars, spVars, whVars, sseVars, repoVars >>

vars == << queueVars, otherPrograms >>

----------------------------------------------------------------------------
\* JavaScript numbers as far as the request parameters need them: an integer
\* or NaN.
Num(n) == [nan |-> FALSE, n |-> n]
NaN    == [nan |-> TRUE, n |-> 0]

\* i < v for an integer i: false when v is NaN.
Less(i, v) == ~v.nan /\ i < v.n

\* Math.max(1, v): NaN when v is NaN.
MathMax1(v) == IF v.nan THEN NaN ELSE Num(IF v.n > 1 THEN v.n ELSE 1)

----------------------------------------------------------------------------
\* class Queue

Size(q) == Len(q.items)

\* Variant of push that tests > instead of >= (takes one item too many).
PushOffByOne(q, item) ==
    IF Len(q.items) > q.maxSize
    THEN [ok |-> FALSE, queue |-> q]
    ELSE [ok |-> TRUE, queue |-> [q EXCEPT !.items = Append(@, item)]]

Push(q, item) ==
    IF Len(q.items) >= q.maxSize
    THEN [ok |-> FALSE, queue |-> q]
    ELSE [ok |-> TRUE, queue |-> [q EXCEPT !.items = Append(@, item)]]

\* Variant of shift that empties the array and returns its first item
\* (splice(0)[0]).
ShiftDropsRest(q) ==
    IF q.items = << >>
    THEN [found |-> FALSE, job |-> [id |-> 0], queue |-> q]
    ELSE [found |-> TRUE, job |-> Head(q.items),
          queue |-> [q EXCEPT !.items = << >>]]

\* Variant of shift that takes the newest item (Array.prototype.pop).
ShiftFromTail(q) ==
    IF q.items = << >>
    THEN [found |-> FALSE, job |-> [id |-> 0], queue |-> q]
    ELSE [found |-> TRUE, job |-> q.items[Len(q.items)],
          queue |-> [q EXCEPT !.items = SubSeq(@, 1, Len(@) - 1)]]

\* Array.prototype.shift: undefined on an empty array (found = FALSE).
Shift(q) ==
    IF q.items = << >>
    THEN [found |-> FALSE, job |-> [id |-> 0], queue |-> q]
    ELSE [found |-> TRUE, job |-> Head(q.items),
          queue |-> [q EXCEPT !.items = Tail(@)]]

----------------------------------------------------------------------------
\* Events handed to sseSend.

QueuedEvent(id, size)    == [type |-> "queued", id |-> id, size |-> size]
BackpressureEvent(size)  == [type |-> "backpressure", size |-> size]
ProcessedEvent(id, size) == [type |-> "processed", id |-> id, size |-> size]
StoppedEvent(p, c, size) ==
    [type |-> "stopped", produced |-> p, consumed |-> c, size |-> size]

----------------------------------------------------------------------------
\* Pending timers of the consumer.

WorkTimer(job) == [kind |-> "work", job |-> job.id]
PollTimer(ms)  == [kind |-> "poll", ms |-> ms]

NoReply == [kind |-> "none"]

\* Variant of consume that arms no idle poll when the queue is empty.
ConsumeStopsWhenIdle(q, run, tm, ms) ==
    IF ~run
    THEN [queue |-> q, timers |-> tm, took |-> << >>]
    ELSE LET r == Shift(q)
         IN  IF r.found
             THEN [queue |-> r.queue,
                   timers |-> tm (+) SetToBag({WorkTimer(r.job)}),
                   took |-> << r.job.id >>]
             ELSE [queue |-> q, timers |-> tm, took |-> << >>]

\* Variant of consume that takes the job and arms an idle poll instead of the
\* work delay, so the job is never completed.
ConsumeDropsJob(q, run, tm, ms) ==
    IF ~run
    THEN [queue |-> q, timers |-> tm, took |-> << >>]
    ELSE LET r == Shift(q)
         IN  [queue |-> r.queue,
              timers |-> tm (+) SetToBag({PollTimer(ms)}),
              took |-> IF r.found THEN << r.job.id >> ELSE << >>]

\* Variant of consume without the test of the running flag.
ConsumeIgnoresRunning(q, run, tm, ms) ==
    LET r == Shift(q)
    IN  IF r.found
        THEN [queue |-> r.queue,
              timers |-> tm (+) SetToBag({WorkTimer(r.job)}),
              took |-> << r.job.id >>]
        ELSE [queue |-> q,
              timers |-> tm (+) SetToBag({PollTimer(ms)}),
              took |-> << >>]

\* Variant of consume that keeps polling while the running flag is false.
ConsumePollsWhilePaused(q, run, tm, ms) ==
    IF ~run
    THEN [queue |-> q, timers |-> tm (+) SetToBag({PollTimer(ms)}),
          took |-> << >>]
    ELSE LET r == Shift(q)
         IN  IF r.found
             THEN [queue |-> r.queue,
                   timers |-> tm (+) SetToBag({WorkTimer(r.job)}),
                   took |-> << r.job.id >>]
             ELSE [queue |-> q,
                   timers |-> tm (+) SetToBag({PollTimer(ms)}),
                   took |-> << >>]

\* function consume(): returns the queue and the timers it leaves, and the
\* ids it took from the queue (at most one).  ms is consumePollMs.
Consume(q, run, tm, ms) ==
    IF ~run
    THEN [queue |-> q, timers |-> tm, took |-> << >>]
    ELSE LET r == Shift(q)
         IN  IF r.found
             THEN [queue |-> r.queue,
                   timers |-> tm (+) SetToBag({WorkTimer(r.job)}),
                   took |-> << r.job.id >>]
             ELSE [queue |-> q,
                   timers |-> tm (+) SetToBag({PollTimer(ms)}),
                   took |-> << >>]

----------------------------------------------------------------------------
\* const addJobs = (count) => {...}: the for loop from iteration i on.  s holds
\* the locals and globals the loop updates.

\* What a request can carry as count: nothing (or the empty string), a text
\* that is no number, or an integer.
CountInputs ==
    { [kind |-> "absent"], [kind |-> "text"] }
        \cup { [kind |-> "num", n |-> n] : n \in -1..MaxCount }

\* Number(url.searchParams.get('count') || 1)
RequestedCount(raw) ==
    CASE raw.kind = "absent" -> Num(1)
      [] raw.kind = "text"   -> NaN
      [] raw.kind = "num"    -> Num(raw.n)

\* Variant of the id assignment that forgets the increment.
StaleId(p) == p

\* ++produced: the id the next job carries.
NextId(p) == p + 1

\* Variant of the loop without the break after a refused push.
RECURSIVE AddJobsLoopNoBreak(_, _, _)
AddJobsLoopNoBreak(s, i, count) ==
    IF ~Less(i, count)
    THEN s
    ELSE LET id == NextId(s.produced)
             r  == Push(s.queue, [id |-> id])
             p  == [before |-> s.queue.items, item |-> [id |-> id], ok |-> r.ok,
                    after |-> r.queue.items]
         IN  AddJobsLoopNoBreak(
                [queue    |-> r.queue,
                 produced |-> id,
                 accepted |-> s.accepted + (IF r.ok THEN 1 ELSE 0),
                 rejected |-> s.rejected + (IF r.ok THEN 0 ELSE 1),
                 emitted  |-> Append(s.emitted,
                                IF r.ok THEN QueuedEvent(id, Size(r.queue))
                                ELSE BackpressureEvent(Size(r.queue))),
                 pushes   |-> Append(s.pushes, p)],
                i + 1, count)

\* Variant of the loop that counts a refused push without reporting it.
RECURSIVE AddJobsLoopSilentReject(_, _, _)
AddJobsLoopSilentReject(s, i, count) ==
    IF ~Less(i, count)
    THEN s
    ELSE LET id == NextId(s.produced)
             r  == Push(s.queue, [id |-> id])
             p  == [before |-> s.queue.items, item |-> [id |-> id], ok |-> r.ok,
                    after |-> r.queue.items]
         IN  IF r.ok
             THEN AddJobsLoopSilentReject(
                    [queue    |-> r.queue,
                     produced |-> id,
                     accepted |-> s.accepted + 1,
                     rejected |-> s.rejected,
                     emitted  |-> Append(s.emitted,
                                         QueuedEvent(id, Size(r.queue))),
                     pushes   |-> Append(s.pushes, p)],
                    i + 1, count)
             ELSE [queue    |-> r.queue,
                   produced |-> id,
                   accepted |-> s.accepted,
                   rejected |-> s.rejected + 1,
                   emitted  |-> s.emitted,
                   pushes   |-> Append(s.pushes, p)]

RECURSIVE AddJobsLoop(_, _, _)
AddJobsLoop(s, i, count) ==
    IF ~Less(i, count)
    THEN s
    ELSE LET id == NextId(s.produced)          \* ++produced, before the push
             r  == Push(s.queue, [id |-> id])
             p  == [before |-> s.queue.items, item |-> [id |-> id], ok |-> r.ok,
                    after |-> r.queue.items]
         IN  IF r.ok
             THEN AddJobsLoop(
                    [queue    |-> r.queue,
                     produced |-> id,
                     accepted |-> s.accepted + 1,
                     rejected |-> s.rejected,
                     emitted  |-> Append(s.emitted,
                                         QueuedEvent(id, Size(r.queue))),
                     pushes   |-> Append(s.pushes, p)],
                    i + 1, count)
             ELSE [queue    |-> r.queue,
                   produced |-> id,
                   accepted |-> s.accepted,
                   rejected |-> s.rejected + 1,
                   emitted  |-> Append(s.emitted,
                                       BackpressureEvent(Size(r.queue))),
                   pushes   |-> Append(s.pushes, p)]      \* break

AddJobs(q, p, count) ==
    AddJobsLoop([queue |-> q, produced |-> p, accepted |-> 0, rejected |-> 0,
                 emitted |-> << >>, pushes |-> << >>], 0, count)

AcceptedOf(ps) == SelectSeq(ps, LAMBDA p : p.ok)

\* The ids of the jobs the pushes ps put in the queue, in order.
RECURSIVE ItemsOf(_)
ItemsOf(ps) ==
    IF ps = << >> THEN << >>
    ELSE << Head(ps).item.id >> \o ItemsOf(Tail(ps))

----------------------------------------------------------------------------
\* The /events connections and the subscribers set.

Observers == 1..MaxObservers

\* Set.prototype.has / add / delete / size on a Set held as the sequence of
\* its members in insertion order (the order for...of visits them in).
SetHas(set, x) == \E k \in 1..Len(set) : set[k] = x

\* Variant of add that appends the member whether or not it is in the set
\* (Array.prototype.push).
SetAddAgain(set, x) == Append(set, x)

SetAdd(set, x) == IF SetHas(set, x) THEN set ELSE Append(set, x)

\* Variant of delete that leaves the member in the set.
SetDeleteKeeps(set, x) == set

SetDelete(set, x) == SelectSeq(set, LAMBDA y : y # x)

SetSize(set) == Len(set)

\* The init event a new connection is sent: "event: init" with the counters.
InitEvent(p, c, size) ==
    [type |-> "init", produced |-> p, consumed |-> c, queueSize |-> size]

\* Variant of the write that puts the line in front of what the handler has
\* written to the connection so far.
WriteInFront(c, rcv, ev) ==
    IF c = "open"
    THEN [rcv |-> << ev >> \o rcv, threw |-> FALSE]
    ELSE [rcv |-> rcv, threw |-> TRUE]

\* res.write(line) on a connection in state c that this handler has written
\* rcv to: what it has written to it afterwards, and whether the write
\* failed.  Only an open connection takes the line.
Write(c, rcv, ev) ==
    IF c = "open"
    THEN [rcv |-> Append(rcv, ev), threw |-> FALSE]
    ELSE [rcv |-> rcv, threw |-> TRUE]

\* function sseSend(obj): for (const res of subscribers) one write, a failed
\* write being caught.  dl is what the handler has written so far.
RECURSIVE SseSend(_, _, _, _)
SseSend(subs, ch, dl, ev) ==
    IF subs = << >>
    THEN dl
    ELSE SseSend(Tail(subs), ch,
                 [dl EXCEPT ![Head(subs)] = Write(ch[Head(subs)], @, ev).rcv],
                 ev)

\* The sseSend calls of one handler, in order.  Neither subscribers nor the
\* connections change while a handler runs.
RECURSIVE SseSendAll(_, _, _, _)
SseSendAll(subs, ch, dl, evs) ==
    IF evs = << >>
    THEN dl
    ELSE SseSendAll(subs, ch, SseSend(subs, ch, dl, Head(evs)), Tail(evs))

NothingDelivered == [o \in Observers |-> << >>]

\* The members of subscribers on which a write of these sseSend calls failed.
FailedWrites(subs, ch, evs) ==
    IF evs = << >>
    THEN {}
    ELSE { o \in Observers :
             SetHas(subs, o) /\ Write(ch[o], << >>, Head(evs)).threw }

\* What a handler's sseSend calls do to the connections.
Fanout(evs) ==
    /\ delivered' = SseSendAll(subscribers, chan, NothingDelivered, evs)
    /\ failed' = FailedWrites(subscribers, chan, evs)

\* What a /control?action=set request can carry as consumeMs.
PollInputs ==
    { [kind |-> "absent"], [kind |-> "text"] }
        \cup { [kind |-> "num", n |-> n] : n \in 0..MaxPollMs }

\* if (c) consumePollMs = Math.max(1, Number(c)); c is the parameter's text,
\* which is falsy only when absent or empty.
NewPollMs(old, raw) ==
    CASE raw.kind = "absent" -> old
      [] raw.kind = "text"   -> MathMax1(NaN)
      [] raw.kind = "num"    -> MathMax1(Num(raw.n))

----------------------------------------------------------------------------
\* The other programs: their initial states.

\* long_poll_server.js: no request has arrived, no tick has occurred.
LpRequests == 1..MaxRequests

LpNew == [st |-> "new", status |-> 0, value |-> 0]

LpInit ==
    /\ currentValue = 0
    /\ lpSubscribers = {}
    /\ lpReq = [r \in LpRequests |-> LpNew]
    /\ lpTimeout = {}
    /\ lpEnded = [r \in LpRequests |-> << >>]

\* short_poll_client.js: the globals, and the start-up call scheduleNext().
SpInit ==
    /\ currentInterval = BASE_INTERVAL_MS
    /\ consecutiveErrors = 0
    /\ totalRequests = 0
    /\ spTimers = << BASE_INTERVAL_MS >>
    /\ spFetching = 0

\* WebhookService: no delivery has been started.
Webhooks == 1..MaxWebhooks

\* The promise of a sendWithRetry call that has not settled.
NoResult == [settled |-> "pending", success |-> FALSE, attempt |-> 0]

NotStarted == [phase |-> "idle", attempt |-> 0, waits |-> << >>,
               outcomes |-> << >>]

WhInit ==
    /\ deliveries = [w \in Webhooks |-> NotStarted]
    /\ results = [w \in Webhooks |-> NoResult]

\* new SSEService(): no client.
SseInit ==
    /\ clients = << >>
    /\ sseLast = [op |-> "start"]

\* JSON.stringify(this.data, null, 2): the text the file holds for an array.
Stringify(d) == [kind |-> "json", entities |-> d]

\* new WebhookRepository() with no file at filePath: data = [] and the file
\* is created holding the empty array.
RepoInit ==
    /\ data = << >>
    /\ file = Stringify(<< >>)
    /\ uuids = 0
    /\ repoLast = [op |-> "start"]

----------------------------------------------------------------------------
\* State after the module has been evaluated: new Queue(n), the counters, and
\* the start-up call consume() on the empty queue, which arms one idle poll.
\* The demo constructs Queue(20); the capacity is the constructor's parameter
\* and is explored from 1 to MaxCapacity.

Init ==
    /\ queue \in { [items |-> << >>, maxSize |-> n] : n \in 1..MaxCapacity }
    /\ produced = 0
    /\ consumed = 0
    /\ running = TRUE
    /\ consumePollMs = Num(DefaultPollMs)
    /\ timers = SetToBag({PollTimer(Num(DefaultPollMs))})
    /\ emitted = << >>
    /\ lastOp = [op |-> "start"]
    /\ reply = NoReply
    /\ pushes = << >>
    /\ acceptedIds = << >>
    /\ dequeuedIds = << >>
    /\ rejections = 0
    /\ paused = FALSE
    /\ processedIds = {}
    /\ subscribers = << >>
    /\ chan = [o \in Observers |-> "idle"]
    /\ delivered = NothingDelivered
    /\ failed = {}
    /\ LpInit /\ SpInit /\ WhInit /\ SseInit /\ RepoInit

\* GET /enqueue?count=raw (POST with {"count": raw} computes the same count,
\* but for a fractional one, which is not enumerated).
Enqueue(raw) ==
    LET count == MathMax1(RequestedCount(raw))
        s     == AddJobs(queue, produced, count)
    IN  /\ s.produced <= MaxProduced
        /\ queue' = s.queue
        /\ produced' = s.produced
        /\ emitted' = s.emitted
        /\ Fanout(s.emitted)
        /\ pushes' = s.pushes
        /\ reply' = [kind |-> "enqueue", accepted |-> s.accepted,
                     rejected |-> s.rejected, queueSize |-> Size(s.queue),
                     produced |-> s.produced]
        /\ lastOp' = [op |-> "enqueue", count |-> count,
                      sizeBefore |-> Size(queue)]
        /\ acceptedIds' = acceptedIds \o ItemsOf(AcceptedOf(s.pushes))
        /\ rejections' = rejections + s.rejected
        /\ UNCHANGED << consumed, running, timers, dequeuedIds, paused,
                        processedIds, consumePollMs, subscribers, chan >>
        /\ UNCHANGED otherPrograms

\* GET /control?action=pause
Pause ==
    /\ running' = FALSE
    /\ emitted' = << >>
    /\ Fanout(<< >>)
    /\ pushes' = << >>
    /\ reply' = [kind |-> "control", running |-> FALSE,
                 consumePollMs |-> consumePollMs]
    /\ lastOp' = [op |-> "pause"]
    /\ paused' = TRUE
    /\ UNCHANGED << queue, produced, consumed, timers, acceptedIds,
                    dequeuedIds, rejections, processedIds, consumePollMs,
                    subscribers, chan >>
    /\ UNCHANGED otherPrograms

\* Variant of the resume branch that sets the flag and does not call
\* consume().
ResumeWithoutConsume ==
    /\ running' = TRUE
    /\ emitted' = << >>
    /\ Fanout(<< >>)
    /\ pushes' = << >>
    /\ reply' = [kind |-> "control", running |-> TRUE,
                 consumePollMs |-> consumePollMs]
    /\ lastOp' = [op |-> "resume", wasRunning |-> running]
    /\ paused' = FALSE
    /\ UNCHANGED << queue, timers, dequeuedIds, produced, consumed,
                    acceptedIds, rejections, processedIds, consumePollMs,
                    subscribers, chan >>
    /\ UNCHANGED otherPrograms

\* GET /control?action=resume
Resume ==
    /\ running \/ BagCardinality(timers) < MaxTimers
    /\ LET c == IF ~running
                THEN Consume(queue, TRUE, timers, consumePollMs)
                ELSE [queue |-> queue, timers |-> timers, took |-> << >>]
       IN  /\ running' = TRUE
           /\ queue' = c.queue
           /\ timers' = c.timers
           /\ dequeuedIds' = dequeuedIds \o c.took
    /\ emitted' = << >>
    /\ Fanout(<< >>)
    /\ pushes' = << >>
    /\ reply' = [kind |-> "control", running |-> TRUE,
                 consumePollMs |-> consumePollMs]
    /\ lastOp' = [op |-> "resume", wasRunning |-> running]
    /\ paused' = FALSE
    /\ UNCHANGED << produced, consumed, acceptedIds, rejections,
                    processedIds, consumePollMs, subscribers, chan >>
    /\ UNCHANGED otherPrograms

\* GET /control?action=set&consumeMs=raw
SetPoll(raw) ==
    /\ consumePollMs' = NewPollMs(consumePollMs, raw)
    /\ emitted' = << >>
    /\ Fanout(<< >>)
    /\ pushes' = << >>
    /\ reply' = [kind |-> "control", running |-> running,
                 consumePollMs |-> consumePollMs']
    /\ lastOp' = [op |-> "set", raw |-> raw]
    /\ UNCHANGED << queue, produced, consumed, running, timers, acceptedIds,
                    dequeuedIds, rejections, paused, processedIds,
                    subscribers, chan >>
    /\ UNCHANGED otherPrograms

\* The setTimeout(consume, consumePollMs) callback of an idle poll armed with
\* the delay ms.
PollExpires(ms) ==
    /\ BagIn(PollTimer(ms), timers)
    /\ LET c == Consume(queue, running,
                        timers (-) SetToBag({PollTimer(ms)}), consumePollMs)
       IN  /\ queue' = c.queue
           /\ timers' = c.timers
           /\ dequeuedIds' = dequeuedIds \o c.took
    /\ emitted' = << >>
    /\ Fanout(<< >>)
    /\ pushes' = << >>
    /\ reply' = NoReply
    /\ lastOp' = [op |-> "poll"]
    /\ UNCHANGED << produced, consumed, running, acceptedIds, rejections,
                    paused, processedIds, consumePollMs, subscribers, chan >>
    /\ UNCHANGED otherPrograms

\* The setTimeout(() => { consumed++; ...; consume(); }, workTime) callback of
\* the job with this id.
WorkDone(id) ==
    /\ BagIn([kind |-> "work", job |-> id], timers)
    /\ consumed' = consumed + 1
    /\ emitted' = << ProcessedEvent(id, Size(queue)) >>
    /\ Fanout(<< ProcessedEvent(id, Size(queue)) >>)
    /\ processedIds' = processedIds \cup {id}
    /\ LET c == Consume(queue, running,
                        timers (-) SetToBag({[kind |-> "work", job |-> id]}),
                        consumePollMs)
       IN  /\ queue' = c.queue
           /\ timers' = c.timers
           /\ dequeuedIds' = dequeuedIds \o c.took
    /\ pushes' = << >>
    /\ reply' = NoReply
    /\ lastOp' = [op |-> "work", job |-> id]
    /\ UNCHANGED << produced, running, acceptedIds, rejections, paused,
                    consumePollMs, subscribers, chan >>
    /\ UNCHANGED otherPrograms

\* res.end() on a connection in state c: an open one is ended; on any other
\* the call has nothing to end (a throw is caught).
End(c) == IF c = "open" THEN "ended" ELSE c

\* Variant of the SIGINT handler that also clears the pending timers.
SigintClearsTimers ==
    /\ running' = FALSE
    /\ timers' = EmptyBag
    /\ emitted' = << StoppedEvent(produced, consumed, Size(queue)) >>
    /\ Fanout(<< StoppedEvent(produced, consumed, Size(queue)) >>)
    /\ chan' = [o \in Observers |->
                  IF SetHas(subscribers, o) THEN End(chan[o]) ELSE chan[o]]
    /\ pushes' = << >>
    /\ reply' = NoReply
    /\ lastOp' = [op |-> "sigint"]
    /\ UNCHANGED << queue, produced, consumed, acceptedIds, dequeuedIds,
                    rejections, paused, processedIds, consumePollMs,
                    subscribers >>
    /\ UNCHANGED otherPrograms

\* process.on("SIGINT", ...): the handler replaces the default exit, and the
\* listening server keeps the process alive.
Sigint ==
    /\ running' = FALSE
    /\ emitted' = << StoppedEvent(produced, consumed, Size(queue)) >>
    /\ Fanout(<< StoppedEvent(produced, consumed, Size(queue)) >>)
    /\ chan' = [o \in Observers |->
                  IF SetHas(subscribers, o) THEN End(chan[o]) ELSE chan[o]]
    /\ pushes' = << >>
    /\ reply' = NoReply
    /\ lastOp' = [op |-> "sigint"]
    /\ UNCHANGED << queue, produced, consumed, timers, acceptedIds,
                    dequeuedIds, rejections, paused, processedIds,
                    consumePollMs, subscribers >>
    /\ UNCHANGED otherPrograms

\* Variant of the /events handler that adds the connection to subscribers
\* without writing the init event.
SubscribeWithoutInit(o) ==
    /\ chan[o] = "idle"
    /\ \A p \in Observers : p < o => chan[p] # "idle"
    /\ delivered' = NothingDelivered
    /\ subscribers' = SetAdd(subscribers, o)
    /\ chan' = [chan EXCEPT ![o] = "open"]
    /\ failed' = {}
    /\ emitted' = << >>
    /\ pushes' = << >>
    /\ reply' = NoReply
    /\ lastOp' = [op |-> "subscribe", observer |-> o]
    /\ UNCHANGED << queue, produced, consumed, running, timers, acceptedIds,
                    dequeuedIds, rejections, paused, processedIds,
                    consumePollMs >>
    /\ UNCHANGED otherPrograms

\* GET /events on a new connection o: the init event is written, then the
\* connection joins subscribers.  Connections are numbered as they arrive.
Subscribe(o) ==
    /\ chan[o] = "idle"
    /\ \A p \in Observers : p < o => chan[p] # "idle"
    /\ delivered' = [NothingDelivered EXCEPT
                       ![o] = << InitEvent(produced, consumed, Size(queue)) >>]
    /\ subscribers' = SetAdd(subscribers, o)
    /\ chan' = [chan EXCEPT ![o] = "open"]
    /\ failed' = {}
    /\ emitted' = << >>
    /\ pushes' = << >>
    /\ reply' = NoReply
    /\ lastOp' = [op |-> "subscribe", observer |-> o]
    /\ UNCHANGED << queue, produced, consumed, running, timers, acceptedIds,
                    dequeuedIds, rejections, paused, processedIds,
                    consumePollMs >>
    /\ UNCHANGED otherPrograms

\* req.on("close", ...) of connection o.
Close(o) ==
    /\ chan[o] \in {"open", "broken", "ended"}
    /\ subscribers' = SetDelete(subscribers, o)
    /\ chan' = [chan EXCEPT ![o] = "closed"]
    /\ failed' = {}
    /\ delivered' = NothingDelivered
    /\ emitted' = << >>
    /\ pushes' = << >>
    /\ reply' = NoReply
    /\ lastOp' = [op |-> "close", observer |-> o]
    /\ UNCHANGED << queue, produced, consumed, running, timers, acceptedIds,
                    dequeuedIds, rejections, paused, processedIds,
                    consumePollMs >>
    /\ UNCHANGED otherPrograms

\* The connection o fails under the server before its close event is
\* delivered: from now on a write to it throws.  No code of the server runs.
Break(o) ==
    /\ chan[o] = "open"
    /\ chan' = [chan EXCEPT ![o] = "broken"]
    /\ failed' = {}
    /\ delivered' = NothingDelivered
    /\ emitted' = << >>
    /\ pushes' = << >>
    /\ reply' = NoReply
    /\ lastOp' = [op |-> "break", observer |-> o]
    /\ UNCHANGED << queue, produced, consumed, running, timers, acceptedIds,
                    dequeuedIds, rejections, paused, processedIds,
                    consumePollMs, subscribers >>
    /\ UNCHANGED otherPrograms

\* GET /health
Health ==
    /\ reply' = [kind |-> "health", subscribers |-> SetSize(subscribers),
                 running |-> running, produced |-> produced,
                 consumed |-> consumed, queueSize |-> Size(queue),
                 consumePollMs |-> consumePollMs]
    /\ failed' = {}
    /\ delivered' = NothingDelivered
    /\ emitted' = << >>
    /\ pushes' = << >>
    /\ lastOp' = [op |-> "health"]
    /\ UNCHANGED << queue, produced, consumed, running, timers, acceptedIds,
                    dequeuedIds, rejections, paused, processedIds,
                    consumePollMs, subscribers, chan >>
    /\ UNCHANGED otherPrograms

\* The timer callbacks.
TimerExpires ==
    \/ \E t \in BagToSet(timers) : t.kind = "poll" /\ PollExpires(t.ms)
    \/ \E id \in 1..MaxProduced : WorkDone(id)

\* The queue, its producer and its consumer, with pause and resume: no
\* connection to /events is opened and consumePollMs keeps its default.
Next ==
    \/ \E raw \in CountInputs : Enqueue(raw)
    \/ Pause
    \/ Resume
    \/ TimerExpires
    \/ Sigint

Spec == Init /\ [][Next]_vars

\* The same program on small queues, with the timers of the event loop
\* expiring: a pending setTimeout callback is eventually run.
SmallInit == Init /\ queue.maxSize <= SmallCapacity

LiveNext == Next /\ produced' <= SmallProduced

TimersFire ==
    /\ \A id \in 1..SmallProduced : WF_vars(WorkDone(id))
    /\ WF_vars(PollExpires(Num(DefaultPollMs)))

LiveSpec == SmallInit /\ [][LiveNext]_vars /\ TimersFire

\* The same program when nobody pauses it and no SIGINT arrives, so that
\* running is never set to false.
RunNext ==
    /\ \/ \E raw \in CountInputs : Enqueue(raw)
       \/ Resume
       \/ TimerExpires
    /\ produced' <= SmallProduced

RunSpec == SmallInit /\ [][RunNext]_vars /\ TimersFire

\* The same program on the smallest queues.
TinyInit == Init /\ queue.maxSize <= TinyCapacity

\* With /control?action=set.
CtlNext ==
    /\ \/ Next
       \/ \E raw \in PollInputs : SetPoll(raw)
    /\ produced' <= TinyProduced

CtlSpec == TinyInit /\ [][CtlNext]_vars

\* With the /events connections and /health, and without pause and resume
\* requests.
ObsNext ==
    /\ \/ \E raw \in CountInputs : Enqueue(raw)
       \/ TimerExpires
       \/ Sigint
       \/ \E o \in Observers : Subscribe(o)
       \/ \E o \in Observers : Close(o)
       \/ \E o \in Observers : Break(o)
       \/ Health
    /\ produced' <= TinyProduced

ObsSpec == TinyInit /\ [][ObsNext]_vars

----------------------------------------------------------------------------
\* The subscribers set and sseSend on their own: add and delete are applied
\* to any connection, member of the set or not, and sseSend to any event.

\* subscribers.add(res) for any res.
RegAdd(o) ==
    /\ subscribers' = SetAdd(subscribers, o)
    /\ chan' = [chan EXCEPT ![o] = IF @ = "idle" THEN "open" ELSE @]
    /\ lastOp' = [op |-> "add", observer |-> o,
                  wasMember |-> SetHas(subscribers, o),
                  before |-> subscribers]
    /\ emitted' = << >>
    /\ delivered' = NothingDelivered
    /\ failed' = {}
    /\ UNCHANGED << queue, produced, consumed, running, timers, reply, pushes,
                    acceptedIds, dequeuedIds, rejections, paused,
                    processedIds, consumePollMs >>
    /\ UNCHANGED otherPrograms

\* subscribers.delete(res) for any res.
RegDelete(o) ==
    /\ subscribers' = SetDelete(subscribers, o)
    /\ lastOp' = [op |-> "delete", observer |-> o]
    /\ emitted' = << >>
    /\ delivered' = NothingDelivered
    /\ failed' = {}
    /\ UNCHANGED << queue, produced, consumed, running, timers, reply, pushes,
                    acceptedIds, dequeuedIds, rejections, paused,
                    processedIds, consumePollMs, chan >>
    /\ UNCHANGED otherPrograms

\* The events sseSend is applied to.
SendInputs ==
    { QueuedEvent(id, size) : id \in 1..TinyProduced, size \in 1..TinyCapacity }
        \cup { BackpressureEvent(size) : size \in 1..TinyCapacity }
        \cup { ProcessedEvent(id, size) :
                  id \in 1..TinyProduced, size \in 0..TinyCapacity }

\* sseSend(ev)
RegSend(ev) ==
    /\ emitted' = << ev >>
    /\ Fanout(<< ev >>)
    /\ lastOp' = [op |-> "send"]
    /\ UNCHANGED << queue, produced, consumed, running, timers, reply, pushes,
                    acceptedIds, dequeuedIds, rejections, paused,
                    processedIds, consumePollMs, subscribers, chan >>
    /\ UNCHANGED otherPrograms

RegNext ==
    \/ \E o \in Observers : RegAdd(o)
    \/ \E o \in Observers : RegDelete(o)
    \/ \E o \in Observers : Break(o)
    \/ \E ev \in SendInputs : RegSend(ev)

RegSpec == TinyInit /\ [][RegNext]_vars

----------------------------------------------------------------------------
\* long_poll_server.js.  A request to /state is held in subscribers until
\* the next tick answers it, its 15 s timeout answers it, or its client
\* closes the connection.  Time is not modelled: the timeout of a request
\* may expire at any step after the request has arrived.

notLp == << queueVars, spVars, whVars, sseVars, repoVars >>

\* Variant of broadcastUpdate that answers the waiting responses and does
\* not clear subscribers.
BroadcastWithoutClear(subs, req, value) ==
    [subscribers |-> subs, written |-> subs,
     req |-> [r \in LpRequests |->
                IF r \in subs
                THEN [st |-> "answered", status |-> 200, value |-> value]
                ELSE req[r]]]

\* function broadcastUpdate(): every waiting response is answered 200 with
\* currentValue, and subscribers is cleared.
BroadcastUpdate(subs, req, value) ==
    IF Cardinality(subs) = 0
    THEN [subscribers |-> subs, written |-> {}, req |-> req]
    ELSE [subscribers |-> {}, written |-> subs,
          req |-> [r \in LpRequests |->
                     IF r \in subs
                     THEN [st |-> "answered", status |-> 200, value |-> value]
                     ELSE req[r]]]

\* The setInterval callback: currentValue++, broadcastUpdate().
LpTick ==
    /\ currentValue < MaxTicks
    /\ currentValue' = currentValue + 1
    /\ LET b == BroadcastUpdate(lpSubscribers, lpReq, currentValue + 1)
       IN  /\ lpSubscribers' = b.subscribers
           /\ lpReq' = b.req
           /\ lpEnded' = [r \in LpRequests |->
                            IF r \in b.written THEN Append(lpEnded[r], 200)
                            ELSE lpEnded[r]]
    /\ UNCHANGED lpTimeout
    /\ UNCHANGED notLp

\* The handler of a request r to /state: the response joins subscribers and
\* the timeout is armed.
LpState(r) ==
    /\ lpReq[r].st = "new"
    /\ \A q \in LpRequests : q < r => lpReq[q].st # "new"
    /\ currentValue < MaxTicks
    /\ lpSubscribers' = lpSubscribers \cup {r}
    /\ lpReq' = [lpReq EXCEPT ![r].st = "pending"]
    /\ lpTimeout' = lpTimeout \cup {r}
    /\ UNCHANGED << currentValue, lpEnded >>
    /\ UNCHANGED notLp

\* Variant of the timeout callback without the test subscribers.has(res).
LpTimeoutUnguarded(r) ==
    /\ r \in lpTimeout
    /\ lpTimeout' = lpTimeout \ {r}
    /\ lpReq' = [lpReq EXCEPT
                   ![r] = [st |-> "answered", status |-> 204, value |-> 0]]
    /\ lpEnded' = [lpEnded EXCEPT ![r] = Append(@, 204)]
    /\ lpSubscribers' = lpSubscribers \ {r}
    /\ UNCHANGED currentValue
    /\ UNCHANGED notLp

\* The setTimeout callback of request r: a response still waiting is
\* answered 204 and leaves subscribers.
LpTimeoutFires(r) ==
    /\ r \in lpTimeout
    /\ lpTimeout' = lpTimeout \ {r}
    /\ IF r \in lpSubscribers
       THEN /\ lpReq' = [lpReq EXCEPT
                           ![r] = [st |-> "answered", status |-> 204,
                                   value |-> 0]]
            /\ lpEnded' = [lpEnded EXCEPT ![r] = Append(@, 204)]
            /\ lpSubscribers' = lpSubscribers \ {r}
       ELSE UNCHANGED << lpReq, lpEnded, lpSubscribers >>
    /\ UNCHANGED currentValue
    /\ UNCHANGED notLp

\* req.on('close') of request r: the client has gone (after its answer, or
\* before): the timeout is cleared and the response leaves subscribers.
LpClose(r) ==
    /\ lpReq[r].st \in {"pending", "answered"}
    /\ lpTimeout' = lpTimeout \ {r}
    /\ lpSubscribers' = lpSubscribers \ {r}
    /\ lpReq' = [lpReq EXCEPT
                   ![r].st = IF r \in lpSubscribers THEN "aborted"
                             ELSE "closed"]
    /\ UNCHANGED << currentValue, lpEnded >>
    /\ UNCHANGED notLp

LpNext ==
    \/ LpTick
    \/ \E r \in LpRequests : LpState(r)
    \/ \E r \in LpRequests : LpTimeoutFires(r)
    \/ \E r \in LpRequests : LpClose(r)

\* setInterval keeps firing.
LpSpec == TinyInit /\ [][LpNext]_vars /\ WF_vars(LpTick)

----------------------------------------------------------------------------
\* short_poll_client.js.  The outcome of a fetch is the server's: either
\* may occur at every poll.  The SIGINT handler exits the process and is
\* left out.

notSp == << queueVars, lpVars, whVars, sseVars, repoVars >>

RECURSIVE Pow2(_)
Pow2(k) == IF k = 0 THEN 1 ELSE 2 * Pow2(k - 1)

Min(a, b) == IF a < b THEN a ELSE b

\* Variant of the backoff that grows linearly.
BackoffLinear(errors) == Min(BASE_INTERVAL_MS * 2 * errors, BackoffCapMs)

\* Math.min(BASE_INTERVAL_MS * 2 ** consecutiveErrors, 10_000)
Backoff(errors) == Min(BASE_INTERVAL_MS * Pow2(errors), BackoffCapMs)

\* function scheduleNext(): setTimeout(poll, currentInterval)
ScheduleNext(tm, interval) == Append(tm, interval)

\* A setTimeout(poll, ...) callback starts: poll() runs up to its fetch.
SpPoll ==
    /\ spTimers # << >>
    /\ totalRequests < MaxPolls
    /\ spTimers' = Tail(spTimers)
    /\ totalRequests' = totalRequests + 1
    /\ spFetching' = spFetching + 1
    /\ UNCHANGED << currentInterval, consecutiveErrors >>
    /\ UNCHANGED notSp

\* The fetch of a poll() resolves (whatever the status, and whether or not
\* the body is JSON): the try branch, then scheduleNext().
SpFetchOk ==
    /\ spFetching > 0
    /\ spFetching' = spFetching - 1
    /\ consecutiveErrors' = 0
    /\ currentInterval' = BASE_INTERVAL_MS
    /\ spTimers' = ScheduleNext(spTimers, currentInterval')
    /\ UNCHANGED totalRequests
    /\ UNCHANGED notSp

\* The fetch of a poll() rejects: the catch branch, then scheduleNext().
SpFetchFails ==
    /\ spFetching > 0
    /\ spFetching' = spFetching - 1
    /\ consecutiveErrors' = consecutiveErrors + 1
    /\ currentInterval' = Backoff(consecutiveErrors')
    /\ spTimers' = ScheduleNext(spTimers, currentInterval')
    /\ UNCHANGED totalRequests
    /\ UNCHANGED notSp

SpNext == SpPoll \/ SpFetchOk \/ SpFetchFails

SpSpec == TinyInit /\ [][SpNext]_vars

----------------------------------------------------------------------------
\* WebhookService.dispatch: sendWithRetry runs for every webhook in parallel
\* (Promise.all).  A send attempt ends in one of three ways, chosen by the
\* receiving endpoint: fetch rejects ("threw"), or it resolves with a 2xx
\* status ("ok") or with another status ("bad").

notWh == << queueVars, lpVars, spVars, sseVars, repoVars >>

SendOutcomes == {"ok", "bad", "threw"}

\* config.webhook.retryDelay * Math.pow(2, attempt - 1)
RetryDelay(attempt) == retryDelay * Pow2(attempt - 1)

\* dispatch: sendWithRetry(..., attempt = 1) is called for every webhook and
\* each call runs up to its fetch.
WhDispatch ==
    /\ \A w \in Webhooks : deliveries[w].phase = "idle"
    /\ deliveries' = [w \in Webhooks |->
                        [phase |-> "sending", attempt |-> 1, waits |-> << >>,
                         outcomes |-> << >>]]
    /\ results' = [w \in Webhooks |-> NoResult]
    /\ UNCHANGED notWh

\* The value sendWithRetry returns from its try branch or from the end of
\* its catch branch: success is the one sendWebhook computed from the
\* status, or false.
Fulfilled(outcome, attempt) ==
    [settled |-> "fulfilled", success |-> (outcome = "ok"),
     attempt |-> attempt]

\* Variant of the handler of a send attempt that also retries an attempt
\* answered with a non-2xx status.
WhSendEndsRetriesStatus(w, outcome) ==
    LET d == deliveries[w]
        o == Append(d.outcomes, outcome)
    IN  /\ d.phase = "sending"
        /\ deliveries' =
              [deliveries EXCEPT ![w] =
                 IF outcome = "ok"
                 THEN [d EXCEPT !.phase = "done", !.outcomes = o]
                 ELSE IF d.attempt < retryAttempts
                 THEN [d EXCEPT !.phase = "sleeping", !.outcomes = o,
                                !.waits = Append(@, RetryDelay(d.attempt))]
                 ELSE [d EXCEPT !.phase = "done", !.outcomes = o]]
        /\ results' =
              [results EXCEPT ![w] =
                 IF deliveries'[w].phase = "done"
                 THEN Fulfilled(outcome, d.attempt) ELSE @]
        /\ UNCHANGED notWh

\* The send attempt of webhook w ends: sendWithRetry returns the result, or
\* in its catch branch starts the sleep before the next attempt, or returns
\* the failure.
WhSendEnds(w, outcome) ==
    LET d == deliveries[w]
        o == Append(d.outcomes, outcome)
    IN  /\ d.phase = "sending"
        /\ deliveries' =
              [deliveries EXCEPT ![w] =
                 IF outcome # "threw"
                 THEN [d EXCEPT !.phase = "done", !.outcomes = o]
                 ELSE IF d.attempt < retryAttempts
                 THEN [d EXCEPT !.phase = "sleeping", !.outcomes = o,
                                !.waits = Append(@, RetryDelay(d.attempt))]
                 ELSE [d EXCEPT !.phase = "done", !.outcomes = o]]
        /\ results' =
              [results EXCEPT ![w] =
                 IF deliveries'[w].phase = "done"
                 THEN Fulfilled(outcome, d.attempt) ELSE @]
        /\ UNCHANGED notWh

\* The sleep of webhook w ends: sendWithRetry(..., attempt + 1) runs up to
\* its fetch.
WhSleepEnds(w) ==
    /\ deliveries[w].phase = "sleeping"
    /\ deliveries' = [deliveries EXCEPT ![w].phase = "sending",
                                        ![w].attempt = @ + 1]
    /\ UNCHANGED results
    /\ UNCHANGED notWh

WhNext ==
    \/ WhDispatch
    \/ \E w \in Webhooks, outcome \in SendOutcomes : WhSendEnds(w, outcome)
    \/ \E w \in Webhooks : WhSleepEnds(w)

WhSpec == TinyInit /\ [][WhNext]_vars

\* The same with every fetch settling (it is aborted after 10 seconds at
\* the latest) and every sleep ending.
WhSettles ==
    \A w \in Webhooks :
        /\ WF_vars(\E outcome \in SendOutcomes : WhSendEnds(w, outcome))
        /\ WF_vars(WhSleepEnds(w))

WhLiveSpec == TinyInit /\ [][WhNext]_vars /\ WhSettles

----------------------------------------------------------------------------
\* SSEService and the GET /events route of the chat app.  A client is a
\* connection with its optional userId and roomId filters; `up` tells
\* whether response.write on it succeeds or throws.

notSse == << queueVars, lpVars, spVars, whVars, repoVars >>

ClientIds == 1..MaxClients

Users == {"alice", "bob"}

Rooms == {"general", "random"}

\* An absent (undefined) query parameter or argument.
None == "none"

\* What the event emitter hands to the listeners of the service: the event
\* name, the id of the room in the payload (user.joined may carry no room,
\* room.created names the new room) and the user the payload is about.
EmitterEvents ==
    { [name |-> "message.created", room |-> r, user |-> u] :
          r \in Rooms, u \in Users }
      \cup { [name |-> "user.joined", room |-> r, user |-> u] :
                r \in Rooms \cup {None}, u \in Users }
      \cup { [name |-> "user.left", room |-> r, user |-> u] :
                r \in Rooms, u \in Users }
      \cup { [name |-> "room.created", room |-> r, user |-> None] :
                r \in Rooms }

\* setupEventListeners: the arguments each listener calls broadcast with.
ListenerCall(ev) ==
    CASE ev.name = "message.created" ->
             [eventType |-> "message", roomId |-> ev.room]
      [] ev.name = "user.joined" ->
             [eventType |-> "user_joined", roomId |-> ev.room]
      [] ev.name = "user.left" ->
             [eventType |-> "user_left", roomId |-> ev.room]
      [] ev.name = "room.created" ->
             [eventType |-> "room_created", roomId |-> None]

\* Variant of the test that skips no client.
SkipsNobody(client, roomId) == FALSE

\* broadcast: if (roomId && client.roomId && client.roomId !== roomId) return
Skips(client, roomId) ==
    roomId # None /\ client.roomId # None /\ client.roomId # roomId

\* broadcast(eventType, data, roomId) on the clients cl: the clients it
\* writes the event to, and the clients sendToClient removes because the
\* write threw.
Broadcast(cl, roomId) ==
    LET tried == { c \in DOMAIN cl : ~Skips(cl[c], roomId) }
    IN  [sent |-> { c \in tried : cl[c].up },
         removed |-> { c \in tried : ~cl[c].up }]

\* removeClient for a set of ids.
RemoveClients(cl, ids) == [c \in (DOMAIN cl) \ ids |-> cl[c]]

\* GET /events?userId=..&roomId=..: addClient, which writes "connected".
SseConnect(c, userId, roomId) ==
    /\ c \notin DOMAIN clients
    /\ \A b \in ClientIds : b < c => b \in DOMAIN clients
    /\ clients' = [b \in (DOMAIN clients) \cup {c} |->
                     IF b = c
                     THEN [userId |-> userId, roomId |-> roomId, up |-> TRUE]
                     ELSE clients[b]]
    /\ sseLast' = [op |-> "connect", client |-> c, sent |-> {c}]
    /\ UNCHANGED notSse

\* req.on('close') of client c: removeClient.
SseClose(c) ==
    /\ c \in DOMAIN clients
    /\ clients' = RemoveClients(clients, {c})
    /\ sseLast' = [op |-> "close", client |-> c, sent |-> {}]
    /\ UNCHANGED notSse

\* The connection of client c fails before its close event is delivered:
\* from now on a write to it throws.  No code of the server runs.
SseBreak(c) ==
    /\ c \in DOMAIN clients
    /\ clients[c].up
    /\ clients' = [clients EXCEPT ![c].up = FALSE]
    /\ sseLast' = [op |-> "break", client |-> c, sent |-> {}]
    /\ UNCHANGED notSse

\* The event emitter emits ev: the listener of the service calls broadcast.
SseEmit(ev) ==
    LET call == ListenerCall(ev)
        b    == Broadcast(clients, call.roomId)
    IN  /\ clients' = RemoveClients(clients, b.removed)
        /\ sseLast' = [op |-> "broadcast", eventType |-> call.eventType,
                       roomId |-> call.roomId, user |-> ev.user,
                       sent |-> b.sent]
        /\ UNCHANGED notSse

\* The heartbeat interval fires: a comment line is written to every client,
\* and a client whose write throws is removed.
SseHeartbeat ==
    /\ clients' = RemoveClients(clients, {c \in DOMAIN clients : ~clients[c].up})
    /\ sseLast' = [op |-> "heartbeat", client |-> 0,
                   sent |-> {c \in DOMAIN clients : clients[c].up}]
    /\ UNCHANGED notSse

SseNext ==
    \/ \E c \in ClientIds, u \in Users \cup {None}, r \in Rooms \cup {None} :
          SseConnect(c, u, r)
    \/ \E c \in ClientIds : SseClose(c)
    \/ \E c \in ClientIds : SseBreak(c)
    \/ \E ev \in EmitterEvents : SseEmit(ev)
    \/ SseHeartbeat

SseSpec == TinyInit /\ [][SseNext]_vars

----------------------------------------------------------------------------
\* WebhookRepository over BaseRepository: the in-memory array `data` and the
\* JSON file it is saved to.  uuids counts the ids uuidv4() has handed out.

notRepo == << queueVars, lpVars, spVars, whVars, sseVars >>

Urls == {"https://a.example/hook", "https://b.example/hook"}

EventLists == { <<"message.created">>, <<"message.created", "user.joined">> }

WebhookIds == 1..MaxUuids

\* What a call of fs.writeFileSync can do: write the whole content, fail
\* before writing, or fail after truncating the file.
WriteOutcomes == {"ok", "unchanged", "torn"}

Torn == [kind |-> "torn", entities |-> << >>]

\* loadFromFile: JSON.parse of the file; data = [] when it throws.
Parse(f) == IF f.kind = "json" THEN f.entities ELSE << >>

\* saveToFile of the array d when the write does w: the file afterwards.
SaveToFile(f, d, w) ==
    CASE w = "ok" -> Stringify(d)
      [] w = "unchanged" -> f
      [] w = "torn" -> Torn

\* What the caller of a write operation sees when saveToFile did w.
Saved(w) == IF w = "ok" THEN "ok" ELSE "threw"

\* Variant of findByUrl that finds nothing.
FindByUrlNothing(d, url) == {}

\* findByUrl: the indexes of the webhooks with this url (find takes the
\* first).
FindByUrl(d, url) == { i \in 1..Len(d) : d[i].url = url }

\* findIndex(e => e.id === id): 0 stands for -1.
FindIndex(d, id) ==
    IF \E i \in 1..Len(d) : d[i].id = id
    THEN CHOOSE i \in 1..Len(d) :
             d[i].id = id /\ \A j \in 1..(i - 1) : d[j].id # id
    ELSE 0

\* splice(index, 1)
Splice(d, index) == [i \in 1..(Len(d) - 1) |-> IF i < index THEN d[i] ELSE d[i + 1]]

\* createWebhook(url, events), and the create of BaseRepository it calls.
RepoCreateWebhook(url, events, w) ==
    /\ IF FindByUrl(data, url) # {}
       THEN /\ repoLast' = [op |-> "createWebhook", url |-> url, id |-> 0,
                            result |-> "duplicate"]
            /\ UNCHANGED << data, file, uuids >>
       ELSE /\ uuids < MaxUuids
            /\ uuids' = uuids + 1
            /\ IF FindIndex(data, uuids') # 0
               THEN /\ repoLast' = [op |-> "createWebhook", url |-> url,
                                    id |-> uuids', result |-> "threw"]
                    /\ UNCHANGED << data, file >>
               ELSE /\ data' = Append(data, [id |-> uuids', url |-> url,
                                             events |-> events,
                                             isActive |-> TRUE])
                    /\ file' = SaveToFile(file, data', w)
                    /\ repoLast' = [op |-> "createWebhook", url |-> url,
                                    id |-> uuids', result |-> Saved(w)]
    /\ UNCHANGED notRepo

\* { ...entity, ...updates }
Merge(entity, updates) ==
    [k \in DOMAIN entity |->
        IF k \in DOMAIN updates THEN updates[k] ELSE entity[k]]

\* update(id, updates) of BaseRepository, called by the method op.
RepoUpdate(op, id, updates, w) ==
    LET index == FindIndex(data, id)
    IN  /\ IF index = 0
           THEN /\ repoLast' = [op |-> op, url |-> "", id |-> id,
                                result |-> "notfound"]
                /\ UNCHANGED << data, file >>
           ELSE /\ data' = [data EXCEPT ![index] = Merge(data[index], updates)]
                /\ file' = SaveToFile(file, data', w)
                /\ repoLast' = [op |-> op, url |-> data[index].url,
                                id |-> id, result |-> Saved(w)]
        /\ UNCHANGED << uuids, notRepo >>

\* setActive(id, isActive)
RepoSetActive(id, isActive, w) ==
    RepoUpdate("setActive", id, [isActive |-> isActive], w)

\* updateEvents(id, events)
RepoUpdateEvents(id, events, w) ==
    RepoUpdate("updateEvents", id, [events |-> events], w)

\* delete(id)
RepoDelete(id, w) ==
    LET index == FindIndex(data, id)
    IN  /\ IF index = 0
           THEN /\ repoLast' = [op |-> "delete", url |-> "", id |-> id,
                                result |-> "notfound"]
                /\ UNCHANGED << data, file >>
           ELSE /\ data' = Splice(data, index)
                /\ file' = SaveToFile(file, data', w)
                /\ repoLast' = [op |-> "delete", url |-> data[index].url,
                                id |-> id, result |-> Saved(w)]
        /\ UNCHANGED << uuids, notRepo >>

\* clear()
RepoClear(w) ==
    /\ data' = << >>
    /\ file' = SaveToFile(file, data', w)
    /\ repoLast' = [op |-> "clear", url |-> "", id |-> 0, result |-> Saved(w)]
    /\ UNCHANGED << uuids, notRepo >>

\* The server is started again: the constructor loads the file.
RepoRestart ==
    /\ data' = Parse(file)
    /\ repoLast' = [op |-> "restart", url |-> "", id |-> 0, result |-> "ok"]
    /\ UNCHANGED << file, uuids, notRepo >>

RepoNext ==
    \/ \E url \in Urls, events \in EventLists, w \in WriteOutcomes :
          RepoCreateWebhook(url, events, w)
    \/ \E id \in WebhookIds, isActive \in BOOLEAN, w \in WriteOutcomes :
          RepoSetActive(id, isActive, w)
    \/ \E id \in WebhookIds, events \in EventLists, w \in WriteOutcomes :
          RepoUpdateEvents(id, events, w)
    \/ \E id \in WebhookIds, w \in WriteOutcomes : RepoDelete(id, w)
    \/ \E w \in WriteOutcomes : RepoClear(w)
    \/ RepoRestart

RepoSpec == TinyInit /\ [][RepoNext]_vars

\* Variant of the duplicate test of create that finds no entity.
HasIdNever(d, id) == FALSE

\* this.data.some(e => e.id === entity.id)
HasId(d, id) == \E i \in 1..Len(d) : d[i].id = id

\* The url of the entities these callers create: the operations of
\* BaseRepository read no field but id.
BaseUrl == "https://a.example/hook"

\* create(entity) of BaseRepository called with an entity whose id the
\* caller has chosen.
BaseCreate(id, w) ==
    /\ IF HasId(data, id)
       THEN /\ repoLast' = [op |-> "create", url |-> BaseUrl, id |-> id,
                            result |-> "exists"]
            /\ UNCHANGED << data, file >>
       ELSE /\ data' = Append(data, [id |-> id, url |-> BaseUrl,
                                     events |-> << "message.created" >>,
                                     isActive |-> TRUE])
            /\ file' = SaveToFile(file, data', w)
            /\ repoLast' = [op |-> "create", url |-> BaseUrl, id |-> id,
                            result |-> Saved(w)]
    /\ UNCHANGED << uuids, notRepo >>

\* BaseRepository with callers that choose the ids themselves.
BaseNext ==
    \/ \E id \in WebhookIds, w \in WriteOutcomes : BaseCreate(id, w)
    \/ \E id \in WebhookIds, isActive \in BOOLEAN, w \in WriteOutcomes :
          RepoSetActive(id, isActive, w)
    \/ \E id \in WebhookIds, w \in WriteOutcomes : RepoDelete(id, w)
    \/ \E w \in WriteOutcomes : RepoClear(w)
    \/ RepoRestart

BaseSpec == TinyInit /\ [][BaseNext]_vars

----------------------------------------------------------------------------
\* RoomRepository over BaseRepository: data holds the rooms, each with its
\* id and its memberIds; the other fields of a room (name, description,
\* createdAt, createdBy) are read by none of these methods.

RoomIds == 1..MaxRooms

\* Variant of includes that finds no member.
IncludesNever(memberIds, userId) == FALSE

\* memberIds.includes(userId)
Includes(memberIds, userId) ==
    \E k \in 1..Len(memberIds) : memberIds[k] = userId

\* memberIds.filter(id => id !== userId)
Without(memberIds, userId) == SelectSeq(memberIds, LAMBDA id : id # userId)

\* createRoom(name, description, creatorId), and the create it calls.
RoomCreate(creatorId, w) ==
    /\ uuids < MaxRooms
    /\ uuids' = uuids + 1
    /\ IF HasId(data, uuids')
       THEN /\ repoLast' = [op |-> "createRoom", id |-> uuids',
                            user |-> creatorId, result |-> "exists"]
            /\ UNCHANGED << data, file >>
       ELSE /\ data' = Append(data, [id |-> uuids',
                                     memberIds |-> << creatorId >>])
            /\ file' = SaveToFile(file, data', w)
            /\ repoLast' = [op |-> "createRoom", id |-> uuids',
                            user |-> creatorId, result |-> Saved(w)]
    /\ UNCHANGED notRepo

\* addMember(roomId, userId)
RoomAddMember(roomId, userId, w) ==
    LET index == FindIndex(data, roomId)
    IN  /\ IF index = 0
           THEN /\ repoLast' = [op |-> "addMember", id |-> roomId,
                                user |-> userId, result |-> "notfound"]
                /\ UNCHANGED << data, file >>
           ELSE IF Includes(data[index].memberIds, userId)
           THEN /\ repoLast' = [op |-> "addMember", id |-> roomId,
                                user |-> userId, result |-> "member"]
                /\ UNCHANGED << data, file >>
           ELSE /\ data' = [data EXCEPT ![index] =
                              Merge(@, [memberIds |->
                                          Append(data[index].memberIds,
                                                 userId)])]
                /\ file' = SaveToFile(file, data', w)
                /\ repoLast' = [op |-> "addMember", id |-> roomId,
                                user |-> userId, result |-> Saved(w)]
        /\ UNCHANGED << uuids, notRepo >>

\* removeMember(roomId, userId)
RoomRemoveMember(roomId, userId, w) ==
    LET index == FindIndex(data, roomId)
    IN  /\ IF index = 0
           THEN /\ repoLast' = [op |-> "removeMember", id |-> roomId,
                                user |-> userId, result |-> "notfound"]
                /\ UNCHANGED << data, file >>
           ELSE /\ data' = [data EXCEPT ![index] =
                              Merge(@, [memberIds |->
                                          Without(data[index].memberIds,
                                                  userId)])]
                /\ file' = SaveToFile(file, data', w)
                /\ repoLast' = [op |-> "removeMember", id |-> roomId,
                                user |-> userId, result |-> Saved(w)]
        /\ UNCHANGED << uuids, notRepo >>

\* The server is started again: the constructor loads the rooms file.
RoomRestart ==
    /\ data' = Parse(file)
    /\ repoLast' = [op |-> "restart", id |-> 0, user |-> None,
                    result |-> "ok"]
    /\ UNCHANGED << file, uuids, notRepo >>

RoomNext ==
    \/ \E creatorId \in Users, w \in WriteOutcomes : RoomCreate(creatorId, w)
    \/ \E roomId \in RoomIds, userId \in Users, w \in WriteOutcomes :
          RoomAddMember(roomId, userId, w)
    \/ \E roomId \in RoomIds, userId \in Users, w \in WriteOutcomes :
          RoomRemoveMember(roomId, userId, w)
    \/ RoomRestart

RoomSpec == TinyInit /\ [][RoomNext]_vars

----------------------------------------------------------------------------
\* Views of the state used by the properties below.

\* The ids of the jobs resident in the queue, head first.
QueueIds == [k \in 1..Size(queue) |-> queue.items[k].id]

\* The ids of the jobs taken from the queue whose work delay is pending.
WorkIds(tm) == { t.job : t \in { x \in BagToSet(tm) : x.kind = "work" } }

\* Number of pending work delays, and of pending idle polls.
InFlight(tm) == Cardinality(WorkIds(tm))
Polling(tm)  == BagCardinality(tm) - Cardinality(WorkIds(tm))

\* The elements of a occur in b in the same order.
RECURSIVE IsSubSeq(_, _)
IsSubSeq(a, b) ==
    IF a = << >> THEN TRUE
    ELSE IF b = << >> THEN FALSE
    ELSE IF Head(a) = Head(b) THEN IsSubSeq(Tail(a), Tail(b))
    ELSE IsSubSeq(a, Tail(b))

StrictlyIncreasing(seq) ==
    \A j, k \in 1..Len(seq) : j < k => seq[j] < seq[k]

EventsOfType(evs, type) == SelectSeq(evs, LAMBDA e : e.type = type)

----------------------------------------------------------------------------
\* C1 (capacity invariant): the queue never holds more than maxSize items;
\* every push that ran in the most recent batch returned true exactly when
\* the queue held fewer than maxSize items, then appended its item at the
\* tail, and otherwise returned false on a full queue and left it as it was.
C1_CapacityInvariant ==
    /\ Size(queue) \in 0..queue.maxSize
    /\ \A k \in 1..Len(pushes) :
          LET p == pushes[k]
          IN  /\ p.ok <=> Len(p.before) < queue.maxSize
              /\ p.ok => p.after = Append(p.before, p.item)
              /\ ~p.ok => Len(p.before) = queue.maxSize /\ p.after = p.before

\* A batch that filled the queue and was then refused, after the consumer had
\* already taken jobs.
C1_Witness ==
    /\ dequeuedIds # << >>
    /\ Size(queue) = queue.maxSize
    /\ \E j, k \in 1..Len(pushes) : pushes[j].ok /\ ~pushes[k].ok

\* C2 (FIFO): the jobs leave the queue in the order they were accepted: the
\* dequeue history followed by the queue content, head first, is the
\* accept history, so no job is taken while an earlier one is still queued.
C2_Fifo == acceptedIds = dequeuedIds \o QueueIds

\* Several jobs taken, jobs still queued, and two consumer timers pending
\* (which takes a pause and a resume between timer expirations).
C2_Witness ==
    /\ Len(dequeuedIds) >= 2
    /\ Size(queue) >= 1
    /\ BagCardinality(timers) >= 2

\* C3 (conservation, as stated): whenever the running flag is set,
\* produced - consumed equals the queue size.  The sentence it comes from
\* adds "and no items are lost"; the statement is taken here in that weaker
\* form, for the states where no push has been refused yet.
C3_Conservation ==
    (running /\ rejections = 0) => produced - consumed = Size(queue)

\* C3 (amended): in every state, produced - consumed equals the queue size
\* plus the number of jobs taken from the queue whose work delay is pending
\* plus the number of pushes refused so far (each refused push has also
\* incremented produced).
C3_ConservationAmended ==
    produced - consumed = Size(queue) + InFlight(timers) + rejections

\* The loop runs, jobs are queued, a job is being processed, one has been
\* completed and a push has been refused.
C3_Witness ==
    /\ running
    /\ Size(queue) >= 1
    /\ InFlight(timers) >= 1
    /\ consumed >= 1
    /\ rejections >= 1

\* C4 (pause, as stated): between a pause and the next resume no handler
\* emits a "processed" event.
C4_PauseSilence ==
    [][(paused /\ paused') => EventsOfType(emitted', "processed") = << >>]_vars

\* C4 (amended): between a pause and the next resume no job is taken from
\* the queue and no work delay is started; the only "processed" events
\* emitted are those of jobs that had been taken before the pause and whose
\* work delay was still pending.
C4_PauseAmended ==
    [][(paused /\ paused') =>
          /\ dequeuedIds' = dequeuedIds
          /\ WorkIds(timers') \subseteq WorkIds(timers)
          /\ \A k \in 1..Len(emitted') :
                emitted'[k].type = "processed"
                    => /\ emitted'[k].id \in WorkIds(timers)
                       /\ emitted'[k].id \notin WorkIds(timers')]_vars

\* A work delay that was pending at the pause has expired during the pause,
\* with jobs still waiting in the queue.
C4_Witness ==
    /\ paused
    /\ lastOp.op = "work"
    /\ Size(queue) >= 1

\* C5 (single worker): at most one consumer timer is pending and at most one
\* job is taken from the queue and not yet completed.
C5_SingleWorker ==
    /\ BagCardinality(timers) <= 1
    /\ InFlight(timers) <= 1

\* C6 (counters): every step raises produced by the number of jobs it had
\* accepted (so not for a refused push), raises consumed by the number of
\* processings it completed, and lowers neither.
C6_Counters ==
    [][/\ produced' - produced = Len(acceptedIds') - Len(acceptedIds)
       /\ consumed' - consumed = Len(EventsOfType(emitted', "processed"))
       /\ produced' >= produced
       /\ consumed' >= consumed]_vars

\* C7 (backpressure scenario, as stated): capacity 5, empty queue, one
\* request for 7 jobs: accepted = 5, rejected = 2, exactly one
\* "backpressure" event, emitted on the 6th attempt, and 5 jobs queued.
C7_Scenario ==
    (/\ lastOp.op = "enqueue" /\ lastOp.count = Num(7) /\ lastOp.sizeBefore = 0
     /\ queue.maxSize = 5)
    => /\ reply.accepted = 5
       /\ reply.rejected = 2
       /\ Len(EventsOfType(emitted, "backpressure")) = 1
       /\ Len(emitted) = 6 /\ emitted[6].type = "backpressure"
       /\ Size(queue) = 5

\* C7 (amended): in that scenario accepted = 5 and rejected = 1; only six
\* pushes are attempted, the sixth is refused and emits the one
\* "backpressure" event, and 5 jobs are queued.
C7_ScenarioAmended ==
    (/\ lastOp.op = "enqueue" /\ lastOp.count = Num(7) /\ lastOp.sizeBefore = 0
     /\ queue.maxSize = 5)
    => /\ reply.accepted = 5
       /\ reply.rejected = 1
       /\ Len(pushes) = 6 /\ ~pushes[6].ok
       /\ Len(EventsOfType(emitted, "backpressure")) = 1
       /\ Len(emitted) = 6 /\ emitted[6].type = "backpressure"
       /\ Size(queue) = 5 /\ reply.queueSize = 5

\* The scenario has just run.
C7_Witness ==
    /\ lastOp.op = "enqueue" /\ lastOp.count = Num(7) /\ lastOp.sizeBefore = 0
    /\ queue.maxSize = 5
    /\ Size(queue) = 5

\* C8 (fail-fast batch): a batch attempts at most count pushes (none when
\* count is NaN), only the last push can be the refused one, and only a
\* refused push ends the batch before count is reached; the batch
\* emits one event per push, in push order: "queued" with the job's id for an
\* accepted push (so in increasing id order), "backpressure" for the refused
\* one, which is therefore the last event and the only one of its kind.
C8_FailFast ==
    lastOp.op = "enqueue" =>
        /\ IF lastOp.count.nan
           THEN pushes = << >>
           ELSE /\ Len(pushes) \in 1..lastOp.count.n
                /\ Len(pushes) < lastOp.count.n => ~pushes[Len(pushes)].ok
        /\ \A k \in 1..(Len(pushes) - 1) : pushes[k].ok
        /\ Len(emitted) = Len(pushes)
        /\ \A k \in 1..Len(pushes) :
              IF pushes[k].ok
              THEN emitted[k].type = "queued"
                   /\ emitted[k].id = pushes[k].item.id
              ELSE emitted[k].type = "backpressure"
        /\ StrictlyIncreasing(ItemsOf(AcceptedOf(pushes)))
        /\ Len(EventsOfType(emitted, "queued")) = reply.accepted
        /\ Len(EventsOfType(emitted, "backpressure")) = reply.rejected
        /\ reply.rejected <= 1

\* A batch that was cut short: two jobs accepted, the third push refused, and
\* at least one requested job never attempted.
C8_Witness ==
    /\ lastOp.op = "enqueue"
    /\ Len(pushes) = 3
    /\ lastOp.count = Num(5)
    /\ ~pushes[3].ok

\* C9 (job ids): the ids of the accepted jobs, in the order of acceptance,
\* are strictly increasing integers (hence unique), each was the value of
\* produced when its job was pushed, and the ids of the queued jobs are
\* strictly increasing from head to tail.
C9_Ids ==
    /\ StrictlyIncreasing(acceptedIds)
    /\ StrictlyIncreasing(QueueIds)
    /\ \A k \in 1..Len(acceptedIds) : acceptedIds[k] \in 1..produced
    /\ \A k \in 1..Len(pushes) :
          pushes[k].item.id = reply.produced - (Len(pushes) - k)

\* Jobs accepted before and after a refused push (a gap in the ids), some
\* of them still queued.
C9_Witness ==
    /\ Len(acceptedIds) >= 3
    /\ Size(queue) >= 2
    /\ \E k \in 1..(Len(acceptedIds) - 1) :
          acceptedIds[k + 1] > acceptedIds[k] + 1

\* C10 (running flag gating): in a step that starts and ends with running
\* false no job leaves the queue, and a timer callback arms no timer in
\* place of the one that expired; no other handler touches the timers; and
\* only the resume action turns running from false to true.
C10_RunningGate ==
    [][/\ (~running /\ ~running') =>
            /\ dequeuedIds' = dequeuedIds
            /\ Size(queue') >= Size(queue)
            /\ IF lastOp'.op \in {"poll", "work"}
               THEN /\ timers' \sqsubseteq timers
                    /\ BagCardinality(timers') = BagCardinality(timers) - 1
               ELSE timers' = timers
       /\ (~running /\ running') => lastOp'.op = "resume"]_vars

\* The last timer expired while running was false: jobs are queued, no
\* timer is pending, the loop has stopped.
C10_Witness ==
    /\ ~running
    /\ lastOp.op \in {"poll", "work"}
    /\ Size(queue) >= 1
    /\ timers = EmptyBag

\* C11 (resume): a resume request leaves running true.  Handled while
\* running was false, it calls consume() once: one timer is added to the
\* pending ones, the work delay of the job at the head of the queue, which
\* is dequeued, or an idle poll when the queue is empty.  Handled while
\* running was true, it changes neither the queue, the timers, the counters
\* nor the poll interval and emits nothing.  And with the timers expiring,
\* a job resident in the queue after a resume is eventually dequeued and
\* processed, unless running becomes false.
C11_Resume ==
    /\ [][lastOp'.op = "resume" =>
            /\ running'
            /\ emitted' = << >>
            /\ UNCHANGED << produced, consumed, consumePollMs >>
            /\ IF running
               THEN UNCHANGED << queue, timers, dequeuedIds >>
               ELSE /\ timers \sqsubseteq timers'
                    /\ BagCardinality(timers') = BagCardinality(timers) + 1
                    /\ IF Size(queue) = 0
                       THEN /\ Polling(timers') = Polling(timers) + 1
                            /\ UNCHANGED << queue, dequeuedIds >>
                       ELSE /\ QueueIds[1] \in WorkIds(timers')
                            /\ dequeuedIds' = Append(dequeuedIds, QueueIds[1])
                            /\ queue'.items = Tail(queue.items)]_vars
    /\ \A id \in 1..SmallProduced :
          (lastOp.op = "resume" /\ \E k \in 1..Size(queue) : QueueIds[k] = id)
              ~> (~running \/ id \in processedIds)

\* A resume has restarted a loop that had stopped (no timer was pending):
\* it took the job at the head, and another job is still queued.
C11_Witness ==
    /\ lastOp.op = "resume"
    /\ ~lastOp.wasRunning
    /\ BagCardinality(timers) = 1
    /\ InFlight(timers) = 1
    /\ Size(queue) >= 1

\* C12 (in-flight work is not cancelled): the work delay of a dequeued job
\* stays pending through every step but its own callback, whatever the
\* handler (pause and SIGINT included); that callback emits one "processed"
\* event, carrying the job's id, and increments consumed by one; a job is
\* never in flight again once processed, and consumed counts the processed
\* jobs.  And with the timers expiring, every job in flight is eventually
\* processed.
C12_NoCancellation ==
    /\ [][\A id \in WorkIds(timers) :
            \/ /\ id \in WorkIds(timers')
               /\ id \notin processedIds'
               /\ \A k \in 1..Len(emitted') :
                     emitted'[k].type = "processed" => emitted'[k].id # id
            \/ /\ lastOp'.op = "work" /\ lastOp'.job = id
               /\ id \notin WorkIds(timers')
               /\ id \notin processedIds /\ id \in processedIds'
               /\ emitted' = << ProcessedEvent(id, Size(queue)) >>
               /\ consumed' = consumed + 1]_vars
    /\ [](consumed = Cardinality(processedIds))
    /\ \A id \in 1..SmallProduced :
          (id \in WorkIds(timers)) ~> (id \in processedIds)

\* A job was completed after SIGINT had stopped the loop, and other jobs
\* are left in the queue.
C12_Witness ==
    /\ lastOp.op = "work"
    /\ ~running /\ ~paused
    /\ Size(queue) >= 1
    /\ timers = EmptyBag

\* C13 (processing order, as stated): "processed" events are emitted in
\* ascending order of job id: the id a "processed" event carries is greater
\* than the id of every "processed" event emitted before it.
C13_ProcessingOrder ==
    [][\A k \in 1..Len(emitted') :
          emitted'[k].type = "processed" =>
              \A id \in processedIds : id < emitted'[k].id]_vars

\* C14 (stale observer, as stated): when a write of a handler's sseSend
\* calls has failed on a connection, the handler's events have still been
\* written to the subscribers whose connection is open, and the connection
\* the write failed on is no longer in subscribers.
C14_StaleObserver ==
    failed # {} =>
        /\ \A o \in Observers :
              (SetHas(subscribers, o) /\ chan[o] = "open")
                  => delivered[o] = emitted
        /\ \A o \in failed : ~SetHas(subscribers, o)

\* C15 (initial-state contract): nothing is written to a connection before
\* its /events request is handled, and that handler writes it exactly the
\* init event, holding produced, consumed and the queue size as they are
\* then, and adds it to subscribers; no later handler writes it an init
\* event; every handler that runs while the connection is in subscribers
\* and open writes it exactly the events the handler emits, in order.  So a
\* handler that emits one "queued" event right after the registration
\* leaves the observer with two events: init, then "queued".
C15_InitialState ==
    [][\A o \in Observers :
          /\ chan[o] = "idle" =>
                \/ delivered'[o] = << >> /\ chan'[o] = "idle"
                \/ /\ lastOp' = [op |-> "subscribe", observer |-> o]
                   /\ delivered'[o] =
                         << InitEvent(produced, consumed, Size(queue)) >>
                   /\ UNCHANGED << produced, consumed, queue >>
                   /\ SetHas(subscribers', o)
          /\ chan[o] # "idle" =>
                \A k \in 1..Len(delivered'[o]) :
                    delivered'[o][k].type # "init"
          /\ (SetHas(subscribers, o) /\ chan[o] = "open") =>
                delivered'[o] = emitted'
          /\ ( /\ lastOp = [op |-> "subscribe", observer |-> o]
               /\ Len(emitted') = 1
               /\ emitted'[1].type = "queued" ) =>
                delivered[o] \o delivered'[o] =
                    << InitEvent(produced, consumed, Size(queue)),
                       QueuedEvent(produced', Size(queue')) >>]_vars

\* The second connection, registered after a job had been completed, has
\* just been written the one "queued" event of an /enqueue request.
C15_Witness ==
    /\ lastOp.op = "enqueue"
    /\ consumed >= 1
    /\ chan[2] = "open"
    /\ emitted = << QueuedEvent(produced, Size(queue)) >>
    /\ delivered[2] = emitted

\* C16 (per-observer order): the live events a handler writes to a
\* connection are events the handler emits, each written once and in the
\* order of emission (handlers run one after the other, so this orders all
\* the events of a connection); and two connections that are written to by
\* the same handler are written the same sequence.
C16_ObserverOrder ==
    [][\A o \in Observers :
          LET live == SelectSeq(delivered'[o], LAMBDA e : e.type # "init")
          IN  /\ IsSubSeq(live, emitted')
              /\ \A p \in Observers :
                    LET other == SelectSeq(delivered'[p],
                                           LAMBDA e : e.type # "init")
                    IN  (live # << >> /\ other # << >>) => live = other]_vars

\* One /enqueue request has emitted a "queued" and then a "backpressure"
\* event, and both have been written to two connections.
C16_Witness ==
    /\ EventsOfType(emitted, "queued") # << >>
    /\ emitted[Len(emitted)].type = "backpressure"
    /\ delivered[1] = emitted
    /\ delivered[2] = emitted

\* C17 (shutdown, as stated): the SIGINT handler writes every open
\* subscriber one "stopped" event, holding produced, consumed and the queue
\* size, and ends its connection; and once it has run (it is the most
\* recent handler, or a connection it ended is still there) no handler
\* emits a "processed" or "queued" event or changes produced or consumed.
C17_Shutdown ==
    [][/\ lastOp'.op = "sigint" =>
            \A o \in Observers :
                (SetHas(subscribers, o) /\ chan[o] = "open") =>
                    /\ delivered'[o] =
                          << StoppedEvent(produced, consumed, Size(queue)) >>
                    /\ chan'[o] = "ended"
       /\ (lastOp.op = "sigint" \/ \E o \in Observers : chan[o] = "ended") =>
            /\ EventsOfType(emitted', "processed") = << >>
            /\ EventsOfType(emitted', "queued") = << >>
            /\ UNCHANGED << produced, consumed >>]_vars

\* C18 (observer removal): the close callback of a connection takes it out
\* of subscribers, a closed connection is never in subscribers and no later
\* handler writes anything to it; and the subscribers field of a /health
\* answer is the number of connections whose /events request has been
\* handled and whose close callback has not.
C18_Removal ==
    /\ [][\A o \in Observers :
            /\ lastOp' = [op |-> "close", observer |-> o] =>
                  ~SetHas(subscribers', o)
            /\ chan[o] = "closed" =>
                  delivered'[o] = << >> /\ chan'[o] = "closed"]_vars
    /\ [](\A o \in Observers : chan[o] = "closed" => ~SetHas(subscribers, o))
    /\ [](lastOp.op = "health" =>
            reply.subscribers =
                Cardinality({ o \in Observers :
                                chan[o] \in {"open", "broken", "ended"} }))

\* The first connection has been closed, and a handler has then emitted
\* events: they were written to the second connection only.
C18_Witness ==
    /\ chan[1] = "closed"
    /\ chan[2] = "open"
    /\ emitted # << >>
    /\ delivered[1] = << >>
    /\ delivered[2] = emitted

\* C19 (idempotent registration): subscribers holds a connection at most
\* once; adding a connection that is already a member leaves the set as it
\* was; and one sseSend call writes its event to a connection at most once.
C19_SetSemantics ==
    /\ \A o \in Observers :
          Cardinality({ k \in 1..Len(subscribers) : subscribers[k] = o }) <= 1
    /\ (lastOp.op = "add" /\ lastOp.wasMember) => subscribers = lastOp.before
    /\ \A o \in Observers :
          /\ Len(delivered[o]) <= Len(emitted)
          /\ (lastOp.op = "send" /\ SetHas(subscribers, o) /\ chan[o] = "open")
                => delivered[o] = emitted

\* A connection that was already a member of a set of two has been added
\* again.
C19_Witness ==
    /\ lastOp.op = "add"
    /\ lastOp.wasMember
    /\ SetSize(subscribers) = 2
    /\ lastOp.observer = subscribers[1]

\* C20 (poll interval, as stated): consumePollMs is a number and at least 1
\* in every state; a set request leaves the pending timers as they are, and
\* an idle poll armed by a step carries the value consumePollMs has then;
\* pause and resume leave consumePollMs unchanged.
C20_PollInterval ==
    /\ [](~consumePollMs.nan /\ consumePollMs.n >= 1)
    /\ [][/\ lastOp'.op = "set" => timers' = timers
          /\ \A t \in BagToSet(timers') :
                (t.kind = "poll" /\ CopiesIn(t, timers') > CopiesIn(t, timers))
                    => t.ms = consumePollMs'
          /\ lastOp'.op \in {"pause", "resume"} =>
                consumePollMs' = consumePollMs]_vars

\* C21 (count clamping, as stated): whatever count an /enqueue request
\* carries, the batch size the handler uses is a number and at least 1, at
\* least one push is attempted, and accepted + rejected >= 1 in the answer.
C21_CountClamp ==
    lastOp.op = "enqueue" =>
        /\ ~lastOp.count.nan
        /\ lastOp.count.n >= 1
        /\ Len(pushes) >= 1
        /\ reply.accepted + reply.rejected >= 1

\* C22 (long-poll server): the waiting responses are exactly the pending
\* requests.  A tick increments currentValue, answers every request pending
\* at that moment 200 with the new value and leaves subscribers empty.  The
\* timeout of a request that is still pending answers it 204 and takes it
\* out of subscribers.  An answer is never replaced.  And with the interval
\* timer firing, every pending request is eventually answered, unless its
\* client closes the connection first.
C22_LongPoll ==
    /\ [](lpSubscribers = { r \in LpRequests : lpReq[r].st = "pending" })
    /\ [][/\ currentValue' # currentValue =>
               /\ currentValue' = currentValue + 1
               /\ lpSubscribers' = {}
               /\ \A r \in lpSubscribers :
                     lpReq'[r] = [st |-> "answered", status |-> 200,
                                  value |-> currentValue']
          /\ \A r \in LpRequests :
               /\ ( /\ lpReq[r].st = "pending"
                    /\ currentValue' = currentValue
                    /\ r \in lpTimeout /\ r \notin lpTimeout'
                    /\ lpReq'[r].st # "aborted" ) =>
                     /\ lpReq'[r].st = "answered"
                     /\ lpReq'[r].status = 204
                     /\ r \notin lpSubscribers'
               /\ lpReq[r].st = "answered" =>
                     /\ lpReq'[r].status = lpReq[r].status
                     /\ lpReq'[r].value = lpReq[r].value
                     /\ lpReq'[r].st \in {"answered", "closed"}]_vars
    /\ \A r \in LpRequests :
          (lpReq[r].st = "pending")
              ~> (lpReq[r].st \in {"answered", "aborted"})

\* One request has been answered 200 by the second tick, another 204 by its
\* timeout.
C22_Witness ==
    \E r, q \in LpRequests :
        /\ lpReq[r].status = 200 /\ lpReq[r].value = 2
        /\ lpReq[q].status = 204

\* C23 (short-poll backoff): after k >= 1 consecutive failed polls
\* currentInterval is min(1000 * 2^k, 10000), after a successful poll
\* consecutiveErrors is 0 and currentInterval is 1000; currentInterval is
\* within 1000..10000 and does not decrease when a poll fails; between
\* polls exactly one poll timer is pending, armed with currentInterval, and
\* none is while a poll awaits its fetch.
C23_Backoff ==
    /\ [](/\ consecutiveErrors >= 1 =>
               currentInterval =
                   Min(BASE_INTERVAL_MS * Pow2(consecutiveErrors), BackoffCapMs)
          /\ consecutiveErrors = 0 => currentInterval = BASE_INTERVAL_MS
          /\ currentInterval \in BASE_INTERVAL_MS..BackoffCapMs
          /\ Len(spTimers) + spFetching = 1
          /\ spFetching = 0 => spTimers = << currentInterval >>)
    /\ [][/\ consecutiveErrors' > consecutiveErrors =>
               /\ consecutiveErrors' = consecutiveErrors + 1
               /\ currentInterval' >= currentInterval
          /\ (spFetching' < spFetching
                 /\ consecutiveErrors' <= consecutiveErrors) =>
               /\ consecutiveErrors' = 0
               /\ spTimers' = << BASE_INTERVAL_MS >>]_vars

\* Four polls in a row have failed after an earlier success: the next poll
\* is armed with the capped delay.
C23_Witness ==
    /\ consecutiveErrors = 4
    /\ totalRequests > 4
    /\ spTimers = << BackoffCapMs >>

\* C24 (webhook retry schedule, as stated): a delivery that has ended
\* after every one of its send attempts threw has waited 1 second, then 2
\* seconds, then 4 seconds before its three retries.
C24_RetrySchedule ==
    \A w \in Webhooks :
        ( /\ deliveries[w].phase = "done"
          /\ \A k \in 1..Len(deliveries[w].outcomes) :
                deliveries[w].outcomes[k] = "threw" ) =>
            deliveries[w].waits = << 1000, 2000, 4000 >>

\* C25 (SSE user filter, as stated): a broadcast writes its event to a
\* client that connected with a userId only if the event is about that
\* user.
C25_UserFilter ==
    sseLast.op = "broadcast" =>
        \A c \in sseLast.sent :
            clients[c].userId \in {None, sseLast.user}

\* C26 (SSE room filter): a broadcast for room R writes nothing to a client
\* whose roomId filter is another room, and writes the event to every client
\* with roomId R or without roomId filter whose connection is up; a
\* broadcast without a room (room.created, or user.joined without a room)
\* writes the event to every client whose connection is up.
C26_RoomFilter ==
    [][sseLast'.op = "broadcast" =>
          /\ sseLast'.eventType = "room_created" => sseLast'.roomId = None
          /\ sseLast'.sent \subseteq DOMAIN clients
          /\ \A c \in DOMAIN clients :
                LET R == sseLast'.roomId
                    Q == clients[c].roomId
                IN  /\ (R # None /\ Q # None /\ Q # R) =>
                          c \notin sseLast'.sent
                    /\ (R # None /\ Q \in {None, R} /\ clients[c].up) =>
                          c \in sseLast'.sent
                    /\ (R = None /\ clients[c].up) =>
                          c \in sseLast'.sent]_vars

\* An event for one room has been written to a client filtering on that
\* room and not to a client filtering on the other room.
C26_Witness ==
    /\ sseLast.op = "broadcast"
    /\ sseLast.roomId = "general"
    /\ DOMAIN clients = {1, 2}
    /\ clients[1].roomId = "general" /\ clients[2].roomId = "random"
    /\ sseLast.sent = {1}

\* C27 (repository durability, as stated): after every write operation,
\* whether it returned or threw, the file holds exactly the in-memory array.
C27_Durability == file = Stringify(data)

\* The urls of the webhooks of an array are pairwise different.
UniqueUrls(d) == \A i, j \in 1..Len(d) : d[i].url = d[j].url => i = j

\* C28 (no duplicate webhook urls): createWebhook for a url that a stored
\* webhook has fails and changes neither the array nor the file nor the
\* ids handed out, and after every operation no two webhooks of the array,
\* and no two webhooks of the file, have the same url.
C28_NoDuplicateUrl ==
    /\ [](UniqueUrls(data) /\ UniqueUrls(file.entities))
    /\ [][(/\ repoLast'.op = "createWebhook"
            /\ \E i \in 1..Len(data) : data[i].url = repoLast'.url)
           => (/\ repoLast'.result = "duplicate"
               /\ UNCHANGED << data, file, uuids >>)]_vars

\* createWebhook has been refused for the url of one of two stored webhooks.
C28_Witness ==
    /\ repoLast.op = "createWebhook"
    /\ repoLast.result = "duplicate"
    /\ Len(data) = 2
    /\ data[2].url = repoLast.url

\* C29 (the consumer loop never stalls): while running has never been set
\* to false, exactly one consumer timer is pending in every state, a work
\* delay or an idle poll; and with the timers expiring, every accepted job
\* is eventually dequeued, and every dequeued job is eventually reported by
\* a "processed" event, which only a job dequeued before can be.
C29_NeverStalls ==
    /\ [](running /\ BagCardinality(timers) = 1)
    /\ [][\A k \in 1..Len(emitted') :
             emitted'[k].type = "processed" =>
                 \E j \in 1..Len(dequeuedIds) :
                     dequeuedIds[j] = emitted'[k].id]_vars
    /\ \A id \in 1..SmallProduced :
          /\ (\E k \in 1..Len(acceptedIds) : acceptedIds[k] = id)
                ~> (\E j \in 1..Len(dequeuedIds) : dequeuedIds[j] = id)
          /\ (\E j \in 1..Len(dequeuedIds) : dequeuedIds[j] = id)
                ~> (id \in processedIds)

\* A job waits in the queue behind the job in flight, after an earlier job
\* has been processed, and running has never been false.
C29_Witness ==
    /\ ~paused
    /\ running
    /\ Size(queue) >= 1
    /\ InFlight(timers) = 1
    /\ consumed >= 1
    /\ lastOp.op = "enqueue"

\* The ids of a sequence of ids.
IdsOf(ids) == { ids[k] : k \in 1..Len(ids) }

\* C30 (item accounting): in every state the number of accepted enqueues
\* equals the queue size plus the number of jobs dequeued and not yet
\* processed plus consumed; every accepted job is in exactly one of these
\* three places (none is lost), each under its own id, and consumed counts
\* each processed job once (none is processed twice).
C30_Accounting ==
    /\ Len(acceptedIds) = Size(queue) + InFlight(timers) + consumed
    /\ Cardinality(IdsOf(acceptedIds)) = Len(acceptedIds)
    /\ Cardinality(IdsOf(QueueIds)) = Size(queue)
    /\ consumed = Cardinality(processedIds)
    /\ IdsOf(acceptedIds) = IdsOf(QueueIds) \cup WorkIds(timers) \cup processedIds
    /\ IdsOf(QueueIds) \cap WorkIds(timers) = {}
    /\ IdsOf(QueueIds) \cap processedIds = {}
    /\ WorkIds(timers) \cap processedIds = {}
    /\ \A t \in BagToSet(timers) : t.kind = "work" => CopiesIn(t, timers) = 1

\* After a pause, a resume and a SIGINT: jobs are queued, two jobs are in
\* flight and one has been processed.
C30_Witness ==
    /\ lastOp.op = "sigint"
    /\ Size(queue) >= 1
    /\ InFlight(timers) = 2
    /\ consumed >= 1
    /\ rejections >= 1

\* C31 (long-poll, at most one response): whatever the order of ticks,
\* timeouts and closes, writeHead/end is called at most once on every
\* response (so never with both 200 and 204), and a response in subscribers
\* has not been ended.
C31_AtMostOnce ==
    /\ \A r \in LpRequests : Len(lpEnded[r]) <= 1
    /\ \A r \in lpSubscribers : lpEnded[r] = << >>

\* The timeout of a request expires after a tick has answered the request,
\* while another request waits.
C31_Witness ==
    \E r, q \in LpRequests :
        /\ lpEnded[r] = << 200 >>
        /\ r \notin lpTimeout
        /\ lpReq[r].st = "answered"
        /\ q \in lpSubscribers

UniqueIds(d) == \A i, j \in 1..Len(d) : d[i].id = d[j].id => i = j

\* C33 (failed operations and unique ids): create of an id that is present
\* throws and changes neither the array nor the file; update and delete of
\* an absent id report "not found" and change neither; and in every state
\* no two entities of the array have the same id.
C33_FailedOperations ==
    /\ [](UniqueIds(data))
    /\ [][/\ (repoLast'.op = "create" /\ HasId(data, repoLast'.id)) =>
               /\ repoLast'.result = "exists"
               /\ UNCHANGED << data, file >>
          /\ ( /\ repoLast'.op \in {"setActive", "updateEvents", "delete"}
               /\ \A i \in 1..Len(data) : data[i].id # repoLast'.id ) =>
               /\ repoLast'.result = "notfound"
               /\ UNCHANGED << data, file >>]_vars

\* create has been refused for the id of one of two stored entities, the
\* one created second and moved to the front by a delete and a create.
C33_Witness ==
    /\ repoLast.op = "create"
    /\ repoLast.result = "exists"
    /\ Len(data) = 2
    /\ data[1].id = repoLast.id
    /\ data[1].id > data[2].id
    /\ ~data[1].isActive

\* No user id occurs twice in a member list.
NoDuplicate(memberIds) ==
    \A i, j \in 1..Len(memberIds) : memberIds[i] = memberIds[j] => i = j

\* C34 (room membership): in every state no room's memberIds holds a user
\* id twice; createRoom appends a room whose memberIds is exactly
\* <<creatorId>>; addMember of a user who is a member changes neither the
\* rooms nor the file; addMember and removeMember of a room that does not
\* exist report "not found" and change neither.
C34_Membership ==
    /\ [](\A i \in 1..Len(data) : NoDuplicate(data[i].memberIds))
    /\ [][/\ repoLast'.op = "createRoom" =>
               /\ Len(data') = Len(data) + 1
               /\ SubSeq(data', 1, Len(data)) = data
               /\ data'[Len(data')].id = repoLast'.id
               /\ data'[Len(data')].memberIds = << repoLast'.user >>
          /\ ( /\ repoLast'.op = "addMember"
               /\ \E i \in 1..Len(data) :
                     /\ data[i].id = repoLast'.id
                     /\ \E k \in 1..Len(data[i].memberIds) :
                           data[i].memberIds[k] = repoLast'.user ) =>
               /\ repoLast'.result = "member"
               /\ UNCHANGED << data, file >>
          /\ ( /\ repoLast'.op \in {"addMember", "removeMember"}
               /\ \A i \in 1..Len(data) : data[i].id # repoLast'.id ) =>
               /\ repoLast'.result = "notfound"
               /\ UNCHANGED << data, file >>]_vars

\* addMember has been called for a user who already is the second member
\* of the room.
C34_Witness ==
    /\ repoLast.op = "addMember"
    /\ repoLast.result = "member"
    /\ Len(data) = 1
    /\ Len(data[1].memberIds) = 2
    /\ data[1].memberIds[2] = repoLast.user

====
